---- MODULE Spec2Model ----
(***************************************************************************)
(* json-mask: a whitelist ("Mask") is derived from a JSON Schema and is    *)
(* applied to JSON data either eagerly (JsonMasker::mask prunes a parsed   *)
(* serde_json::Value in place) or while a typed value is being serialized  *)
(* (MaskedSerializer wraps a serde Serializer).                            *)
(*                                                                         *)
(* Three specifications share the variables:                               *)
(*   SpecBuild   ValidJsonSchema::new, Mask::from, then JsonMasker::mask   *)
(*   SpecPrune   JsonMasker::mask applied repeatedly to a document         *)
(*   SpecStream  json::to_writer driving MaskedSerializer field by field   *)
(***************************************************************************)
EXTENDS Integers, Sequences, FiniteSets, TLC

VARIABLES
    schema,     \* the serde_json::Value handed to ValidJsonSchema::new
    validated,  \* Result of ValidJsonSchema::new: "pending", "Ok", "Err"
    built,      \* outcome of Mask::from: "pending", "Ok", "Panic"
    mask,       \* the Mask owned by JsonMasker / MaskedSerializer
    doc,        \* the &mut Value given to JsonMasker::mask
    doc0,       \* the document as it was before the first mask() call
    passes,     \* number of JsonMasker::mask calls made on doc
    tvalue,     \* the typed value given to json::to_writer
    shape,      \* how tvalue emits an object: "struct" or "map"
    pos,        \* number of fields the value's Serialize impl has passed on
    skipped,    \* keys the Serialize impl reported through skip_field
    calls,      \* the calls that reached the wrapped serializer, in order
    out,        \* the tokens the wrapped serializer has written
    outcome     \* what to_writer returns: [status, error]

buildVars == <<schema, validated, built>>
pruneVars == <<doc, doc0, passes>>
streamVars == <<tvalue, shape, pos, skipped, calls, out, outcome>>
vars == <<schema, validated, built, mask, doc, doc0, passes,
          tvalue, shape, pos, skipped, calls, out, outcome>>

(***************************************************************************)
(* serde_json::Value.  Every value is a record [kind, val]; an object's    *)
(* val is a function from its keys to values (serde_json::Map), an array's *)
(* val is a sequence.                                                      *)
(***************************************************************************)
Null == [kind |-> "null", val |-> <<>>]
Num(n) == [kind |-> "num", val |-> n]
Str(s) == [kind |-> "str", val |-> s]
Arr(s) == [kind |-> "arr", val |-> s]
Obj(f) == [kind |-> "obj", val |-> f]
Bool(b) == [kind |-> "bool", val |-> b]

\* Value::as_object / as_object_mut: Some(map) exactly for objects.
is_object(v) == v.kind = "obj"

\* Map::get(key).is_some()
has_key(map, key) == key \in DOMAIN map

EmptyMap == [k \in {} |-> Null]

(***************************************************************************)
(* Mask: properties maps a property name to Option<Mask>.  None is <<>>,   *)
(* Some(child) is <<child>>.                                               *)
(***************************************************************************)
None == <<>>
Some(child) == <<child>>
is_some(opt) == opt # <<>>
unwrap(opt) == opt[1]

\* Mask::default()
MaskDefault == [properties |-> [k \in {} |-> None]]

\* HashMap::insert on mask.properties
MaskInsert(m, key, entry) ==
    [properties |-> [k \in DOMAIN m.properties \cup {key} |->
                        IF k = key THEN entry ELSE m.properties[k]]]

(***************************************************************************)
(* JsonMasker::mask_object: Map::retain with a closure that drops a key    *)
(* absent from mask_node.properties and, for a kept key whose value is an  *)
(* object and whose entry is Some(child), prunes the value with the child. *)
(***************************************************************************)
\* serde_json::Map is a BTreeMap: retain visits the keys in sorted order.
KeyOrder == <<"a", "b">>
KeyIndex(k) == CHOOSE i \in 1..Len(KeyOrder) : KeyOrder[i] = k
KeyBefore(j, k) == KeyIndex(j) < KeyIndex(k)

RECURSIVE mask_object_skip_next(_, _)
\* A retain that steps over the key following a removed one.
mask_object_skip_next(object, mask_node) ==
    LET allowed(k) == has_key(mask_node.properties, k)
        removedBefore(k) == \E j \in DOMAIN object :
                               /\ KeyBefore(j, k)
                               /\ ~ allowed(j)
                               /\ \A i \in DOMAIN object :
                                      ~ (KeyBefore(j, i) /\ KeyBefore(i, k))
        kept == {k \in DOMAIN object : allowed(k) \/ removedBefore(k)}
    IN  [key \in kept |->
            LET value == object[key]
            IN  IF allowed(key) /\ is_object(value)
                              /\ is_some(mask_node.properties[key])
                THEN Obj(mask_object_skip_next(value.val,
                                               unwrap(mask_node.properties[key])))
                ELSE value]

RECURSIVE mask_object_no_recurse(_, _)
\* A retain that keeps allowed keys but never descends.
mask_object_no_recurse(object, mask_node) ==
    [key \in {k \in DOMAIN object : has_key(mask_node.properties, k)} |->
        object[key]]

RECURSIVE mask_object_leaf_recursed(_, _)
\* A retain that treats a None entry as Some(Mask::default()).
mask_object_leaf_recursed(object, mask_node) ==
    [key \in {k \in DOMAIN object : has_key(mask_node.properties, k)} |->
        LET value == object[key]
            mask_child_node == mask_node.properties[key]
        IN  IF is_object(value)
            THEN Obj(mask_object_leaf_recursed(value.val,
                        IF is_some(mask_child_node) THEN unwrap(mask_child_node)
                                                    ELSE MaskDefault))
            ELSE value]

RECURSIVE mask_object_strict(_, _)
\* A retain that drops a key whose entry is Some(child) when the value is not
\* an object.
mask_object_strict(object, mask_node) ==
    [key \in {k \in DOMAIN object :
                /\ has_key(mask_node.properties, k)
                /\ is_some(mask_node.properties[k]) => is_object(object[k])} |->
        LET value == object[key]
            mask_child_node == mask_node.properties[key]
        IN  IF is_object(value) /\ is_some(mask_child_node)
            THEN Obj(mask_object_strict(value.val, unwrap(mask_child_node)))
            ELSE value]

RECURSIVE mask_object_drop_emptied(_, _)
\* A retain that also drops a key whose object value is empty after pruning.
mask_object_drop_emptied(object, mask_node) ==
    LET pruned(key) ==
            IF is_object(object[key]) /\ is_some(mask_node.properties[key])
            THEN Obj(mask_object_drop_emptied(object[key].val,
                                              unwrap(mask_node.properties[key])))
            ELSE object[key]
    IN  [key \in {k \in DOMAIN object :
                    /\ has_key(mask_node.properties, k)
                    /\ pruned(k) # Obj(EmptyMap)} |-> pruned(key)]

RECURSIVE mask_object(_, _)
mask_object(object, mask_node) ==
    [key \in {k \in DOMAIN object : has_key(mask_node.properties, k)} |->
        LET value == object[key]
            mask_child_node == mask_node.properties[key]
        IN  IF is_object(value) /\ is_some(mask_child_node)
            THEN Obj(mask_object(value.val, unwrap(mask_child_node)))
            ELSE value]

\* A mask() that also prunes the objects held by a root array.
JsonMasker_mask_into_arrays(object, m) ==
    IF is_object(object) THEN Obj(mask_object(object.val, m))
    ELSE IF object.kind = "arr"
         THEN Arr([i \in 1..Len(object.val) |->
                    IF is_object(object.val[i])
                    THEN Obj(mask_object(object.val[i].val, m))
                    ELSE object.val[i]])
         ELSE object

\* JsonMasker::mask: only an object root is pruned.
JsonMasker_mask(object, m) ==
    IF is_object(object) THEN Obj(mask_object(object.val, m)) ELSE object

(***************************************************************************)
(* ValidJsonSchema::new.  The body hands the value to the external JSON    *)
(* Schema validator (the draft-04 meta-schema, json_v4_schema) and returns *)
(* Ok exactly when the validator does; it makes no check of its own on the *)
(* root.  Of the meta-schema only the keywords the masker reads are        *)
(* modelled: the document is an object, "type" (when present) is one of    *)
(* the simple type names, "properties" (when present) is an object whose   *)
(* values are schemas; unknown keywords are accepted.                      *)
(***************************************************************************)
SimpleTypes ==
    {"array", "boolean", "integer", "null", "number", "object", "string"}

RECURSIVE validator_accepts(_)
validator_accepts(v) ==
    /\ is_object(v)
    /\ has_key(v.val, "type") =>
          /\ v.val["type"].kind = "str"
          /\ v.val["type"].val \in SimpleTypes
    /\ has_key(v.val, "properties") =>
          /\ is_object(v.val["properties"])
          /\ \A k \in DOMAIN v.val["properties"].val :
                validator_accepts(v.val["properties"].val[k])

ValidJsonSchema_new(value) ==
    IF validator_accepts(value) THEN "Ok" ELSE "Err"

(***************************************************************************)
(* parse_schema_node and Mask::from.  A result is [panic, mask]: panic is  *)
(* TRUE when one of the unwrap() calls met None.                           *)
(***************************************************************************)
Done(m) == [panic |-> FALSE, mask |-> m]
Panicked == [panic |-> TRUE, mask |-> MaskDefault]

\* child.as_object().unwrap().get("type"), then `== "object"`
type_is_object(child) ==
    has_key(child.val, "type") /\ child.val["type"] = Str("object")

RECURSIVE parse_schema_node_lenient(_, _)
\* A builder that also recurses into a property that has no "type" but has
\* "properties" of its own.
parse_schema_node_lenient(m, node) ==
    IF ~ is_object(node) THEN Panicked
    ELSE IF ~ has_key(node.val, "properties") THEN Done(m)
    ELSE LET properties == node.val["properties"]
         IN  IF ~ is_object(properties) THEN Done(m)
             ELSE LET recurse(child) ==
                          \/ type_is_object(child)
                          \/ (~ has_key(child.val, "type")
                                /\ has_key(child.val, "properties"))
                      sub(key) == parse_schema_node_lenient(MaskDefault,
                                                            properties.val[key])
                      panics(key) ==
                          \/ ~ is_object(properties.val[key])
                          \/ (recurse(properties.val[key]) /\ sub(key).panic)
                      entry(key) ==
                          IF recurse(properties.val[key])
                          THEN Some(sub(key).mask) ELSE None
                  IN  IF \E key \in DOMAIN properties.val : panics(key)
                      THEN Panicked
                      ELSE Done([properties |->
                              [k \in DOMAIN m.properties
                                        \cup DOMAIN properties.val |->
                                  IF k \in DOMAIN properties.val
                                  THEN entry(k) ELSE m.properties[k]]])

RECURSIVE parse_schema_node(_, _)
parse_schema_node(m, node) ==
    IF ~ is_object(node) THEN Panicked              \* as_object().unwrap()
    ELSE IF ~ has_key(node.val, "properties") THEN Done(m)
    ELSE LET properties == node.val["properties"]
         IN  IF ~ is_object(properties) THEN Done(m)
             ELSE LET sub(key) == parse_schema_node(MaskDefault,
                                                    properties.val[key])
                      \* child.as_object().unwrap(), or a panic below
                      panics(key) ==
                          \/ ~ is_object(properties.val[key])
                          \/ (type_is_object(properties.val[key])
                                /\ sub(key).panic)
                      entry(key) ==
                          IF type_is_object(properties.val[key])
                          THEN Some(sub(key).mask) ELSE None
                  IN  IF \E key \in DOMAIN properties.val : panics(key)
                      THEN Panicked
                      ELSE Done([properties |->
                              [k \in DOMAIN m.properties
                                        \cup DOMAIN properties.val |->
                                  IF k \in DOMAIN properties.val
                                  THEN entry(k) ELSE m.properties[k]]])

\* impl From<&ValidJsonSchema> for Mask
Mask_from(value) ==
    IF ~ is_object(value) THEN Panicked                  \* as_object().unwrap()
    ELSE IF ~ has_key(value.val, "type") THEN Panicked   \* get("type").unwrap()
    ELSE IF value.val["type"].kind # "str" THEN Panicked \* as_str().unwrap()
    ELSE IF value.val["type"].val = "object"
         THEN parse_schema_node(MaskDefault, value)
         ELSE Done(MaskDefault)

(***************************************************************************)
(* The wrapped sink of json::to_writer: serde_json::Serializer over a      *)
(* writer.  It writes compact JSON, an object's keys in the order they are *)
(* given (sorted, for a serde_json::Map).                                  *)
(***************************************************************************)
quote(str) == "\"" \o str \o "\""

RECURSIVE to_tokens(_)
RECURSIVE field_tokens(_, _, _)
RECURSIVE element_tokens(_, _)
to_tokens(v) ==
    CASE v.kind = "null" -> <<"null">>
      [] v.kind = "num"  -> <<ToString(v.val)>>
      [] v.kind = "bool" -> <<IF v.val THEN "true" ELSE "false">>
      [] v.kind = "str"  -> <<quote(v.val)>>
      [] v.kind = "arr"  -> <<"[">> \o element_tokens(v.val, 1) \o <<"]">>
      [] v.kind = "obj"  -> <<"{">> \o field_tokens(v.val, 1, TRUE) \o <<"}">>

field_tokens(map, i, first) ==
    IF i > Len(KeyOrder) THEN <<>>
    ELSE IF KeyOrder[i] \in DOMAIN map
         THEN (IF first THEN <<>> ELSE <<",">>)
                 \o <<quote(KeyOrder[i]), ":">> \o to_tokens(map[KeyOrder[i]])
                 \o field_tokens(map, i + 1, FALSE)
         ELSE field_tokens(map, i + 1, first)

element_tokens(seq, i) ==
    IF i > Len(seq) THEN <<>>
    ELSE (IF i = 1 THEN <<>> ELSE <<",">>)
            \o to_tokens(seq[i]) \o element_tokens(seq, i + 1)

\* What the sink's SerializeStruct::serialize_field writes: a comma unless
\* this is the first field, the key, and the whole value, serialized by the
\* sink itself.
sink_field_tokens(written, key, v) ==
    (IF written = <<"{">> THEN <<>> ELSE <<",">>)
        \o <<quote(key), ":">> \o to_tokens(v)

\* The fields of an object-shaped value in the order its Serialize impl
\* passes them on.
field_keys(v) == SelectSeq(KeyOrder, LAMBDA k : k \in DOMAIN v.val)

(***************************************************************************)
(* MaskedSerializeStructWrapper.                                           *)
(***************************************************************************)
serialize_field_forwards_all(mask_node, key) == TRUE

\* serialize_field: `if self.mask.properties.contains_key(key)`
serialize_field_forwards(mask_node, key) == has_key(mask_node.properties, key)

\* skip_field: `if self.mask.properties.contains_key(key)`
skip_field_forwards(mask_node, key) == has_key(mask_node.properties, key)

\* serialize_field: the sink's Result is the value of the `if` block and is
\* not returned; the function ends in Ok(()).
serialize_field_result(sinkOk) == "Ok"

\* skip_field: `self.struct_serializer.skip_field(key)?` then Ok(())
skip_field_result(sinkOk) == IF sinkOk THEN "Ok" ELSE "Err"

Call(op, key, v, ok) == [op |-> op, key |-> key, val |-> v, ok |-> ok]
Running == [status |-> "running", error |-> 0]
Finished == [status |-> "Ok", error |-> 0]
Panic == [status |-> "Panic", error |-> 0]
\* Err(e), e being the sink's error: the number of the call that raised it
Failed(e) == [status |-> "Err", error |-> e]

(***************************************************************************)
(* Bounded inputs.                                                         *)
(***************************************************************************)
Keys == {KeyOrder[i] : i \in 1..Len(KeyOrder)}

\* bound on the number of JsonMasker::mask calls made on one document
MaxPasses == 2

Leaves == {Null, Num(1), Str("x"), Arr(<<Obj([k \in {"a"} |-> Num(1)])>>)}

MapsOver(V) == UNION {[S -> V] : S \in SUBSET Keys}

\* Schema documents: a node has an optional "type" and an optional
\* "properties"; an option is <<>> or <<value>>.
Opt(S) == {<<>>} \cup {<<x>> : x \in S}
SchemaNode(t, p) ==
    Obj([k \in (IF t # <<>> THEN {"type"} ELSE {})
                 \cup (IF p # <<>> THEN {"properties"} ELSE {}) |->
            IF k = "type" THEN t[1] ELSE p[1]])
LeafSchemas ==
    {SchemaNode(t, <<>>) : t \in Opt({Str("object"), Str("string"), Str("potato")})}
      \cup {SchemaNode(<<>>, <<Obj(EmptyMap)>>), Str("x")}
MidSchemas ==
    {SchemaNode(t, p) : t \in Opt({Str("object"), Str("string")}),
                        p \in Opt({Null} \cup {Obj(f) : f \in MapsOver(LeafSchemas)})}
RootSchemas ==
    {SchemaNode(t, p) :
        t \in Opt({Str("object"), Str("string"), Str("potato"), Null}),
        p \in Opt({Null} \cup {Obj(f) : f \in MapsOver(MidSchemas)})}
\* RANDOM_JSON of the tests, and roots that are not objects
OtherSchemas ==
    {Obj([k \in {"this_is"} |-> Str("x")]), Str("x"), Null, Arr(<<>>)}
Schemas == RootSchemas \cup OtherSchemas

Obj1 == {Obj(f) : f \in MapsOver(Leaves)}
Obj2 == {Obj(f) : f \in MapsOver(Leaves \cup Obj1)}
\* every two-level object once more below the key "a"
Obj3 == {Obj([k \in {"a"} |-> d]) : d \in Obj2}
Docs == Leaves \cup {Bool(TRUE)} \cup Obj2 \cup Obj3

MasksOver(C) ==
    {[properties |-> f] : f \in MapsOver({None} \cup {Some(c) : c \in C})}
Mask1 == MasksOver({MaskDefault})
Mask2 == MasksOver(Mask1)
Mask3 == {MaskInsert(MaskDefault, "a", Some(m)) : m \in Mask2}
Masks == Mask2 \cup Mask3

(***************************************************************************)
(* SpecPrune: a JsonMasker holding any mask prunes any document, up to     *)
(* MaxPasses times.                                                        *)
(***************************************************************************)
\* No to_writer call is in progress.
Idle == [status |-> "idle", error |-> 0]
StreamIdle ==
    /\ tvalue = Null
    /\ shape = "struct"
    /\ pos = 0
    /\ skipped = {}
    /\ calls = <<>>
    /\ out = <<>>
    /\ outcome = Idle

\* JsonMasker::new(mask) with any mask; the schema it came from is not kept.
InitPrune ==
    /\ schema = Null
    /\ validated = "Ok"
    /\ built = "Ok"
    /\ mask \in Masks
    /\ doc \in Docs
    /\ doc0 = doc
    /\ passes = 0
    /\ StreamIdle

\* masker.mask(&mut doc)
MaskDoc ==
    /\ built = "Ok"
    /\ passes < MaxPasses
    /\ doc' = JsonMasker_mask(doc, mask)
    /\ passes' = passes + 1
    /\ UNCHANGED <<schema, validated, built, mask, doc0, streamVars>>

NextPrune == MaskDoc

SpecPrune == InitPrune /\ [][NextPrune]_vars

(***************************************************************************)
(* SpecBuild: a JSON value goes through ValidJsonSchema::new and           *)
(* Mask::from; the mask built then prunes a document.                      *)
(***************************************************************************)
BuildDocs ==
    {Obj([k \in Keys |-> IF k = "a" THEN Obj([j \in Keys |-> Num(1)])
                                    ELSE Str("x")]),
     Arr(<<Obj([k \in {"a"} |-> Num(1)])>>)}

InitBuild ==
    /\ schema \in Schemas
    /\ validated = "pending"
    /\ built = "pending"
    /\ mask = MaskDefault
    /\ doc \in BuildDocs
    /\ doc0 = doc
    /\ passes = 0
    /\ StreamIdle

\* ValidJsonSchema::new(schema)
New ==
    /\ validated = "pending"
    /\ validated' = ValidJsonSchema_new(schema)
    /\ UNCHANGED <<schema, built, mask, doc, doc0, passes, streamVars>>

\* Mask::from(&valid_schema)
From ==
    /\ validated = "Ok"
    /\ built = "pending"
    /\ LET r == Mask_from(schema)
       IN  /\ built' = IF r.panic THEN "Panic" ELSE "Ok"
           /\ mask' = r.mask
    /\ UNCHANGED <<schema, validated, doc, doc0, passes, streamVars>>

NextBuild == New \/ From \/ MaskDoc

SpecBuild == InitBuild /\ [][NextBuild]_vars

(***************************************************************************)
(* SpecStream: json::to_writer(mask, writer, &tvalue).  The value's        *)
(* Serialize impl drives the MaskedSerializer; every call forwarded to the *)
(* wrapped serializer may succeed or return an error.                      *)
(***************************************************************************)
StreamLeaves == {Num(1), Str("x")}
StreamObj1 == {Obj(f) : f \in MapsOver(StreamLeaves)}
StreamObj2 == {Obj(f) : f \in MapsOver(StreamLeaves \cup StreamObj1)}
StreamValues == StreamObj2 \cup {Num(1), Arr(<<Obj([k \in {"a"} |-> Num(1)])>>)}

InitStream ==
    /\ schema = Null
    /\ validated = "Ok"
    /\ built = "Ok"
    /\ mask \in Mask2
    /\ tvalue \in StreamValues
    /\ shape \in (IF is_object(tvalue) THEN {"struct", "map"} ELSE {"struct"})
    /\ doc = tvalue
    /\ doc0 = tvalue
    /\ passes = 0
    /\ pos = 0
    /\ skipped = {}
    /\ calls = <<>>
    /\ out = <<>>
    /\ outcome = Idle

\* Serializer::serialize_struct: the sink's serialize_struct(name, len)?,
\* then the wrapper around what it returned.
SerializeStruct ==
    /\ outcome = Idle
    /\ is_object(tvalue)
    /\ shape = "struct"
    /\ \E ok \in BOOLEAN :
          /\ calls' = Append(calls, Call("serialize_struct", "", Null, ok))
          /\ out' = IF ok THEN <<"{">> ELSE out
          /\ outcome' = IF ok THEN Running ELSE Failed(Len(calls) + 1)
    /\ UNCHANGED <<buildVars, mask, pruneVars, tvalue, shape, pos, skipped>>

\* Serializer::serialize_map: the sink's serialize_map(len)?, then the wrapper.
SerializeMap ==
    /\ outcome = Idle
    /\ is_object(tvalue)
    /\ shape = "map"
    /\ \E ok \in BOOLEAN :
          /\ calls' = Append(calls, Call("serialize_map", "", Null, ok))
          /\ out' = IF ok THEN <<"{">> ELSE out
          /\ outcome' = IF ok THEN Running ELSE Failed(Len(calls) + 1)
    /\ UNCHANGED <<buildVars, mask, pruneVars, tvalue, shape, pos, skipped>>

\* serialize_i64, serialize_str, serialize_seq, ...: handed to the sink as is.
SerializeOther ==
    /\ outcome = Idle
    /\ ~ is_object(tvalue)
    /\ \E ok \in BOOLEAN :
          /\ calls' = Append(calls, Call("serialize_value", "", tvalue, ok))
          /\ out' = IF ok THEN to_tokens(tvalue) ELSE out
          /\ outcome' = IF ok THEN Finished ELSE Failed(Len(calls) + 1)
    /\ UNCHANGED <<buildVars, mask, pruneVars, tvalue, shape, pos, skipped>>

\* MaskedSerializeStructWrapper::serialize_field(key, value)
SerializeField ==
    /\ outcome = Running
    /\ shape = "struct"
    /\ pos < Len(field_keys(tvalue))
    /\ LET key == field_keys(tvalue)[pos + 1]
       IN  IF serialize_field_forwards(mask, key)
           THEN \E ok \in BOOLEAN :
                  /\ calls' = Append(calls,
                                Call("serialize_field", key, tvalue.val[key], ok))
                  /\ out' = IF ok
                            THEN out \o sink_field_tokens(out, key, tvalue.val[key])
                            ELSE out
                  /\ outcome' = IF serialize_field_result(ok) = "Ok"
                                THEN outcome ELSE Failed(Len(calls) + 1)
           ELSE UNCHANGED <<calls, out, outcome>>
    /\ pos' = pos + 1
    /\ UNCHANGED <<buildVars, mask, pruneVars, tvalue, shape, skipped>>

\* MaskedSerializeStructWrapper::skip_field(key)
SkipField ==
    /\ outcome = Running
    /\ shape = "struct"
    /\ pos < Len(field_keys(tvalue))
    /\ LET key == field_keys(tvalue)[pos + 1]
       IN  /\ skipped' = skipped \cup {key}
           /\ IF skip_field_forwards(mask, key)
              THEN \E ok \in BOOLEAN :
                     /\ calls' = Append(calls, Call("skip_field", key, Null, ok))
                     /\ outcome' = IF skip_field_result(ok) = "Ok"
                                   THEN outcome ELSE Failed(Len(calls) + 1)
              ELSE UNCHANGED <<calls, outcome>>
    /\ pos' = pos + 1
    /\ UNCHANGED <<buildVars, mask, pruneVars, tvalue, shape, out>>

\* MaskedSerializeStructWrapper::end
End ==
    /\ outcome = Running
    /\ shape = "struct"
    /\ pos = Len(field_keys(tvalue))
    /\ \E ok \in BOOLEAN :
          /\ calls' = Append(calls, Call("end", "", Null, ok))
          /\ out' = IF ok THEN Append(out, "}") ELSE out
          /\ outcome' = IF ok THEN Finished ELSE Failed(Len(calls) + 1)
    /\ UNCHANGED <<buildVars, mask, pruneVars, tvalue, shape, pos, skipped>>

\* MaskedSerializeMapWrapper::serialize_key / serialize_value /
\* serialize_entry / end: todo!()
MapWrapperCall ==
    /\ outcome = Running
    /\ shape = "map"
    /\ outcome' = Panic
    /\ UNCHANGED <<buildVars, mask, pruneVars, tvalue, shape, pos, skipped,
                   calls, out>>

NextStream ==
    \/ SerializeStruct
    \/ SerializeMap
    \/ SerializeOther
    \/ SerializeField
    \/ SkipField
    \/ End
    \/ MapWrapperCall

SpecStream == InitStream /\ [][NextStream]_vars

(***************************************************************************)
(* Properties of ValidJsonSchema::new and Mask::from, checked under        *)
(* SpecBuild.                                                              *)
(***************************************************************************)
\* The root shape a ValidJsonSchema is documented to have.
RootShapeOk(v) ==
    /\ is_object(v)
    /\ has_key(v.val, "type")
    /\ v.val["type"].kind = "str"

\* C3: ValidJsonSchema::new returns Err for every value that is not an
\* object, has no "type", has a "type" that is not a string, or is rejected
\* by the validator; it returns Ok for none of them.
C3_RejectsMalformed ==
    (validated # "pending" /\ ~ (RootShapeOk(schema) /\ validator_accepts(schema)))
        => validated = "Err"

\* C4: Mask::from never panics on a value ValidJsonSchema::new accepted.
C4_BuildNeverPanics == validated = "Ok" => built # "Panic"

RECURSIVE ShapeOf(_, _)
ShapeOf(m, node) ==
    (has_key(node.val, "properties") /\ is_object(node.val["properties"])) =>
        LET properties == node.val["properties"].val
        IN  /\ DOMAIN m.properties = DOMAIN properties
            /\ \A k \in DOMAIN properties :
                  /\ is_some(m.properties[k]) <=>
                        /\ has_key(properties[k].val, "type")
                        /\ properties[k].val["type"] = Str("object")
                  /\ is_some(m.properties[k]) =>
                        ShapeOf(unwrap(m.properties[k]), properties[k])

\* C9: for a schema node with an object-valued "properties" the mask node has
\* exactly the declared property names as keys; a property maps to
\* Some(child mask built from the property's own "properties") exactly when
\* its "type" is present and is the string "object", and to None otherwise.
C9_MaskShape ==
    (built = "Ok" /\ schema.val["type"] = Str("object")) => ShapeOf(mask, schema)

\* A built mask with a Some entry whose child mask has keys, next to a None
\* entry for a property that has no "type" but has "properties" of its own.
C9_Witness ==
    /\ built = "Ok"
    /\ schema.val["type"] = Str("object")
    /\ \E k \in DOMAIN mask.properties :
          /\ is_some(mask.properties[k])
          /\ DOMAIN unwrap(mask.properties[k]).properties # {}
    /\ \E k \in DOMAIN mask.properties :
          /\ ~ is_some(mask.properties[k])
          /\ ~ has_key(schema.val["properties"].val[k].val, "type")
          /\ has_key(schema.val["properties"].val[k].val, "properties")
          /\ DOMAIN schema.val["properties"].val[k].val["properties"].val # {}

\* The schemas said to give an empty mask: root "type" a string other than
\* "object", or root "properties" absent or the empty object.
EmptyMaskCase(v) ==
    /\ is_object(v)
    /\ \/ (/\ has_key(v.val, "type")
            /\ v.val["type"].kind = "str"
            /\ v.val["type"].val # "object")
       \/ ~ has_key(v.val, "properties")
       \/ v.val["properties"] = Obj(EmptyMap)

\* C13: such a schema, once accepted by ValidJsonSchema::new, builds to a Mask
\* with no entries, and that mask prunes any object document to {}.
C13_EmptyMask ==
    (validated = "Ok" /\ built # "pending" /\ EmptyMaskCase(schema)) =>
        /\ built = "Ok"
        /\ mask = MaskDefault
        /\ (passes >= 1 /\ is_object(doc0)) => doc = Obj(EmptyMap)

(***************************************************************************)
(* Properties of JsonMasker::mask, checked under SpecPrune.                *)
(***************************************************************************)
RECURSIVE KeysWithin(_, _)
KeysWithin(object, mask_node) ==
    \A k \in DOMAIN object :
        /\ has_key(mask_node.properties, k)
        /\ (is_some(mask_node.properties[k]) /\ is_object(object[k]))
              => KeysWithin(object[k].val, unwrap(mask_node.properties[k]))

\* C1: after mask(), every key left in the root object is a key of the mask's
\* root node, and every key left in a nested object reached through retained
\* keys whose entries are all Some(child) is a key of that child mask.
C1_Subset == (passes >= 1 /\ is_object(doc)) => KeysWithin(doc.val, mask)

\* A pruned run where a nested object, reached through a Some(child) entry,
\* lost one key and kept another, and the root lost a key too.
C1_Witness ==
    /\ passes >= 1
    /\ is_object(doc0)
    /\ \E k \in DOMAIN doc0.val : ~ has_key(doc.val, k)
    /\ \E k \in DOMAIN doc.val :
          /\ is_some(mask.properties[k])
          /\ is_object(doc0.val[k])
          /\ DOMAIN doc.val[k].val # {}
          /\ DOMAIN doc.val[k].val # DOMAIN doc0.val[k].val

\* C5: masking is idempotent: a mask() call made on a document that was
\* already masked with the same mask leaves the document as it is.
C5_Idempotent == [][passes >= 1 => doc' = doc]_vars

\* The second call ran on a document that the first call had changed, at the
\* root and inside a nested object.
C5_Witness ==
    /\ passes = 2
    /\ is_object(doc0)
    /\ DOMAIN doc.val # DOMAIN doc0.val
    /\ \E k \in DOMAIN doc.val : is_object(doc.val[k]) /\ doc.val[k] # doc0.val[k]

RECURSIVE LeafKept(_, _, _)
LeafKept(before, after, mask_node) ==
    \A k \in DOMAIN before :
        has_key(mask_node.properties, k) =>
            /\ has_key(after, k)
            /\ ~ is_some(mask_node.properties[k]) => after[k] = before[k]
            /\ (is_some(mask_node.properties[k]) /\ is_object(before[k])) =>
                  /\ is_object(after[k])
                  /\ LeafKept(before[k].val, after[k].val,
                              unwrap(mask_node.properties[k]))

\* C10: a key whose mask entry at a reached position is None keeps exactly the
\* value it had before mask(), whatever the value's shape.
C10_LeafAllowKeepsValue ==
    (passes >= 1 /\ is_object(doc0)) =>
        /\ is_object(doc)
        /\ LeafKept(doc0.val, doc.val, mask)

\* A document that mask() did change, with a leaf-allowed root key holding an
\* object with keys of its own and a leaf-allowed key one level down.
C10_Witness ==
    /\ passes >= 1
    /\ is_object(doc0)
    /\ doc # doc0
    /\ \E k \in DOMAIN doc0.val :
          /\ has_key(mask.properties, k)
          /\ ~ is_some(mask.properties[k])
          /\ is_object(doc0.val[k])
          /\ DOMAIN doc0.val[k].val # {}
    /\ \E k \in DOMAIN doc0.val :
          /\ has_key(mask.properties, k)
          /\ is_some(mask.properties[k])
          /\ is_object(doc0.val[k])
          /\ \E j \in DOMAIN doc0.val[k].val :
                /\ has_key(unwrap(mask.properties[k]).properties, j)
                /\ ~ is_some(unwrap(mask.properties[k]).properties[j])
                /\ doc.val[k].val[j] = doc0.val[k].val[j]

RECURSIVE MismatchKept(_, _, _)
MismatchKept(before, after, mask_node) ==
    \A k \in DOMAIN before :
        (has_key(mask_node.properties, k) /\ is_some(mask_node.properties[k])) =>
            /\ has_key(after, k)
            /\ ~ is_object(before[k]) => after[k] = before[k]
            /\ is_object(before[k]) =>
                  /\ is_object(after[k])
                  /\ MismatchKept(before[k].val, after[k].val,
                                  unwrap(mask_node.properties[k]))

\* C11: a key whose mask entry is Some(child) but whose value is not an
\* object (string, number, array, null) is kept by mask() with the value it
\* had, at the root and at every position reached through Some entries.
C11_MismatchTolerated ==
    (passes >= 1 /\ is_object(doc0)) =>
        /\ is_object(doc)
        /\ MismatchKept(doc0.val, doc.val, mask)

\* A document that mask() did change, holding an array under a Some(child)
\* key at the root and a string under a Some(child) key one level down.
C11_Witness ==
    /\ passes >= 1
    /\ is_object(doc0)
    /\ doc # doc0
    /\ \E k \in DOMAIN doc0.val :
          /\ has_key(mask.properties, k)
          /\ is_some(mask.properties[k])
          /\ doc0.val[k].kind = "arr"
          /\ doc.val[k] = doc0.val[k]
    /\ \E k \in DOMAIN doc0.val :
          /\ has_key(mask.properties, k)
          /\ is_some(mask.properties[k])
          /\ is_object(doc0.val[k])
          /\ \E j \in DOMAIN doc0.val[k].val :
                /\ has_key(unwrap(mask.properties[k]).properties, j)
                /\ is_some(unwrap(mask.properties[k]).properties[j])
                /\ doc0.val[k].val[j].kind = "str"
                /\ doc.val[k].val[j] = doc0.val[k].val[j]

\* C12: mask() leaves a document whose root is not an object (array, string,
\* number, null) exactly as it was, objects inside a root array included.
C12_NonObjectRootUnchanged ==
    (passes >= 1 /\ ~ is_object(doc0)) => doc = doc0

\* A masked root array holding an object with a key the mask does not allow,
\* under a mask that does allow some key.
C12_Witness ==
    /\ passes >= 1
    /\ doc0.kind = "arr"
    /\ DOMAIN mask.properties # {}
    /\ \E i \in 1..Len(doc0.val) :
          /\ is_object(doc0.val[i])
          /\ \E k \in DOMAIN doc0.val[i].val : ~ has_key(mask.properties, k)

RECURSIVE AllowedKept(_, _, _)
AllowedKept(before, after, mask_node) ==
    \A k \in DOMAIN before :
        has_key(mask_node.properties, k) =>
            /\ has_key(after, k)
            /\ IF is_object(before[k]) /\ is_some(mask_node.properties[k])
               THEN /\ is_object(after[k])
                    /\ AllowedKept(before[k].val, after[k].val,
                                   unwrap(mask_node.properties[k]))
               ELSE after[k] = before[k]

\* C14: mask() removes nothing that is whitelisted: every key of the document
\* that is in the mask at its position is still there afterwards, with its
\* value when the value is not pruned itself, and a document whose keys are
\* all whitelisted at every level is left unchanged.
C14_NoOverPruning ==
    (passes >= 1 /\ is_object(doc0)) =>
        /\ is_object(doc)
        /\ AllowedKept(doc0.val, doc.val, mask)
        /\ KeysWithin(doc0.val, mask) => doc = doc0

\* A partially whitelisted document: the root lost a key and kept one whose
\* nested object, pruned with the child mask, lost every key it had.
C14_Witness ==
    /\ passes >= 1
    /\ is_object(doc0)
    /\ \E k \in DOMAIN doc0.val : ~ has_key(doc.val, k)
    /\ \E k \in DOMAIN doc.val :
          /\ is_some(mask.properties[k])
          /\ is_object(doc0.val[k])
          /\ DOMAIN doc0.val[k].val # {}
          /\ doc.val[k] = Obj(EmptyMap)

(***************************************************************************)
(* Properties of the streaming path, checked under SpecStream.             *)
(***************************************************************************)
AllCallsOk == \A i \in 1..Len(calls) : calls[i].ok

\* C2: the two appliers agree: when the whole value has been emitted (no
\* field skipped, no sink failure), to_writer has returned Ok and the sink
\* has written the canonical serialization of JsonMasker::mask(D) for the
\* document D of the same structure.
C2_AppliersAgree ==
    (outcome.status \in {"Ok", "Panic"} /\ skipped = {} /\ AllCallsOk) =>
        /\ outcome.status = "Ok"
        /\ out = to_tokens(JsonMasker_mask(tvalue, mask))

\* The keys the Serialize impl has passed to serialize_field so far.
PassedKeys ==
    {field_keys(tvalue)[i] : i \in 1..pos} \ skipped

FieldCalls(key) ==
    {i \in 1..Len(calls) : calls[i].op = "serialize_field" /\ calls[i].key = key}

C7_NestedFiltered ==
    \A i \in 1..Len(calls) :
        (/\ calls[i].op = "serialize_field"
         /\ is_some(mask.properties[calls[i].key])
         /\ is_object(calls[i].val))
            => DOMAIN calls[i].val.val
                  \subseteq DOMAIN unwrap(mask.properties[calls[i].key]).properties

\* C8: a sink error ends the emission at the failing call and is what
\* to_writer returns; the interceptor raises no failure of its own.
C8_ErrorPassThrough ==
    /\ outcome.status # "Panic"
    /\ \A i \in 1..Len(calls) :
          ~ calls[i].ok =>
              /\ i = Len(calls)
              /\ outcome = Failed(i)
    /\ outcome.status = "Err" =>
          /\ Len(calls) > 0
          /\ ~ calls[Len(calls)].ok

====
